---- MODULE Spec2Model ----
(***************************************************************************)
(* A model of src/src/main.rs ("Systems Critical"): the per-frame          *)
(* simulation core of MainState (update, event, reset and their helpers).  *)
(*                                                                         *)
(* Numbers.  The program computes in f32.                                  *)
(*  - Timers and life values are modelled exactly: an f32 value v is the   *)
(*    integer v * 2^29, and every subtraction is rounded to 24 significant *)
(*    bits, ties to even (F32Round), as IEEE-754 single precision does.    *)
(*  - Positions and velocities are fixed point: a velocity is an integer   *)
(*    number of 1/3 px/s, a position an integer number of 1/180 px, so     *)
(*    that pos += velocity * dt (dt = 1/60 s) is pos += velocity.          *)
(*  - An angle is an integer number of 1/20 rad, so that one frame of      *)
(*    turning (dt * PLAYER_TURN_RATE = 0.05 rad) is one unit; sin and cos  *)
(*    are tabulated in thousandths.                                        *)
(***************************************************************************)
EXTENDS Integers, Sequences, FiniteSets, TLC

----------------------------------------------------------------------------
(* Fixed-point scales *)

\* velocity units per px/s
VelPerPx == 3
\* angle units per radian
FacingPerRad == 20
\* denominator of SinTable and CosTable
Trig == 1000
\* the f32 value 1.0
F32One == 2^29

DESIRED_FPS == 60
\* position units per px: pos += velocity * (1 / DESIRED_FPS)
PosPerPx == VelPerPx * DESIRED_FPS

Abs(n) == IF n < 0 THEN -n ELSE n

\* n / d rounded to the nearest integer (d > 0), halves away from zero
RoundDiv(n, d) ==
  IF n >= 0 THEN (2 * n + d) \div (2 * d) ELSE -((2 * (-n) + d) \div (2 * d))

\* The spacing of f32 values around magnitude a (in units of 2^-29).
RECURSIVE F32Quantum(_, _)
F32Quantum(a, q) == IF a \div q < 2^24 THEN q ELSE F32Quantum(a, 2 * q)

\* Round to 24 significant bits, ties to even.
F32Round(n) ==
  LET a  == Abs(n)
      q  == F32Quantum(a, 1)
      r  == a % q
      lo == a - r
      up == (2 * r > q) \/ (2 * r = q /\ (lo \div q) % 2 = 1)
      m  == IF up THEN lo + q ELSE lo
  IN  IF n < 0 THEN -m ELSE m

\* a - b in f32
F32Sub(a, b) == F32Round(a - b)

\* floor of the square root
RECURSIVE ISqrtIn(_, _, _)
ISqrtIn(n, lo, hi) ==
  IF lo >= hi THEN lo
  ELSE LET mid == (lo + hi + 1) \div 2
       IN  IF mid * mid <= n THEN ISqrtIn(n, mid, hi) ELSE ISqrtIn(n, lo, mid - 1)
ISqrt(n) == ISqrtIn(n, 0, 46340)

Vec(x, y) == [x |-> x, y |-> y]
\* Vector2::ZERO
ZERO == Vec(0, 0)
VAdd(a, b) == Vec(a.x + b.x, a.y + b.y)
VSub(a, b) == Vec(a.x - b.x, a.y - b.y)
\* v * (num / den), each component rounded
VMul(v, num, den) == Vec(RoundDiv(v.x * num, den), RoundDiv(v.y * num, den))
\* Vector::len2
len2(v) == v.x * v.x + v.y * v.y
\* v.len() < r, for r >= 0.  The components are compared first so that the
\* squares stay inside 32 bits; the outcome is that of len2(v) < r * r.
LenLess(v, r) == Abs(v.x) < r /\ Abs(v.y) < r /\ len2(v) < r * r

\* sin and cos of k / 20 rad, in thousandths, k = 0 .. 125 (just under 2 pi)
SinTable ==
  <<
    0, 50, 100, 149, 199, 247, 296, 343, 389, 435, 479, 523, 565, 605,
    644, 682, 717, 751, 783, 813, 841, 867, 891, 913, 932, 949, 964, 976,
    985, 993, 997, 1000, 1000, 997, 992, 984, 974, 961, 946, 929, 909, 887,
    863, 837, 808, 778, 746, 711, 675, 638, 598, 558, 516, 472, 427, 382,
    335, 287, 239, 190, 141, 91, 42, -8, -58, -108, -158, -207, -256, -304,
    -351, -397, -443, -487, -530, -572, -612, -651, -688, -723, -757, -789, -818, -846,
    -872, -895, -916, -935, -952, -966, -978, -987, -994, -998, -1000, -999, -996, -991,
    -982, -972, -959, -944, -926, -906, -883, -859, -832, -804, -773, -740, -706, -669,
    -631, -592, -551, -508, -465, -420, -374, -327, -279, -231, -182, -133, -83, -33
  >>
CosTable ==
  <<
    1000, 999, 995, 989, 980, 969, 955, 939, 921, 900, 878, 853, 825, 796,
    765, 732, 697, 660, 622, 582, 540, 498, 454, 408, 362, 315, 267, 219,
    170, 121, 71, 21, -29, -79, -129, -178, -227, -276, -323, -370, -416, -461,
    -505, -547, -589, -628, -666, -703, -737, -770, -801, -830, -857, -882, -904, -924,
    -942, -958, -971, -982, -990, -996, -999, -1000, -998, -994, -987, -978, -967, -953,
    -936, -918, -897, -874, -848, -821, -791, -759, -726, -691, -654, -615, -575, -533,
    -490, -446, -401, -355, -307, -259, -211, -162, -112, -62, -12, 38, 87, 137,
    187, 235, 284, 331, 378, 424, 469, 512, 554, 595, 635, 673, 709, 743,
    776, 806, 835, 861, 886, 908, 927, 945, 960, 973, 983, 991, 997, 999
  >>

\* Create a unit vector (in thousandths) for the angle k / 20 rad:
\* (sin, cos), so angle 0 points up.  |k| <= 125.
vec_from_angle(k) ==
  IF k >= 0 THEN Vec(SinTable[k + 1], CosTable[k + 1])
  ELSE Vec(-SinTable[(-k) + 1], CosTable[(-k) + 1])

----------------------------------------------------------------------------
(* Constants of the program *)

PLAYER_LIFE == F32One
SHOT_LIFE == 2 * F32One
RADAR_LIFE == 3 * F32One
ROCK_LIFE == F32One

\* collision radii, px
PLAYER_BBOX == 12
ROCK_BBOX == 12
WORMHOLE_BBOX == 16
SHOT_BBOX == 6

\* px/s
MAX_ROCK_VEL == 50
MAX_WORMHOLE_VEL == 25
SHOT_SPEED == 200
\* 0.1 rad per frame
SHOT_ANG_VEL == FacingPerRad \div 10
\* px/s^2
PLAYER_THRUST == 100
\* rad/s
PLAYER_TURN_RATE == 3
\* 0.5 s and f32(0.4) s
PLAYER_SHOT_TIME == F32One \div 2
PLAYER_RADAR_TIME == F32Round((2 * F32One) \div 5)
\* px/s
MAX_PHYSICS_VEL == 200
\* the window, px
screen_width == 800
screen_height == 600
\* let seconds = 1.0 / (DESIRED_FPS as f32): f32(1/60) = 8947849 * 2^-29
seconds == RoundDiv(F32One, DESIRED_FPS)

----------------------------------------------------------------------------
(* Actors *)

Actor(tag, bbox, ang_vel, layer, life) ==
  [tag |-> tag, sys |-> "Radar", pos |-> ZERO, facing |-> 0, velocity |-> ZERO,
   ang_vel |-> ang_vel, bbox_size |-> bbox, layer |-> layer, life |-> life]

create_player == Actor("Player", PLAYER_BBOX, 0, 500, PLAYER_LIFE)
create_wormhole == Actor("Wormhole", WORMHOLE_BBOX, 0, 495, PLAYER_LIFE)
create_rock == Actor("Rock", ROCK_BBOX, 0, 500, ROCK_LIFE)
create_shot == Actor("Shot", SHOT_BBOX, SHOT_ANG_VEL, 500, SHOT_LIFE)
create_radar(layer) == Actor("Radar", SHOT_BBOX, SHOT_ANG_VEL, layer, RADAR_LIFE)

(* rand::random::<f32>() is a value u / RandRes, u in 0 .. RandRes - 1.  The
   generator's output is a stream: a finite tuple of such u, read cyclically,
   the n-th call (from 0) of one create_rocks / create_wormholes run reading
   entry n.  Which stream a run gets is the model's nondeterminism. *)
RandRes == 150
Rand(stream, n) == stream[(n % Len(stream)) + 1]

\* 2 * PI in angle units
TwoPi == (2 * 3142 * FacingPerRad) \div Trig

\* rand * 2.0 * PI
RandAngle(u) == (u * TwoPi) \div RandRes

\* random_vec(max_magnitude): a random angle, then a random magnitude in
\* [0, max_magnitude) px/s
random_vec(max_magnitude, stream, n) ==
  LET angle == RandAngle(Rand(stream, n))
      mag   == RoundDiv(Rand(stream, n + 1) * max_magnitude * VelPerPx, RandRes)
  IN  VMul(vec_from_angle(angle), mag, Trig)

\* Faulty variant of SpawnPos: the distance is drawn from [0, max_radius)
SpawnPos_FromZero(exclusion, min_radius, max_radius, stream, n) ==
  LET r_angle    == RandAngle(Rand(stream, n))
      r_distance == RoundDiv(Rand(stream, n + 1) * max_radius * PosPerPx, RandRes)
  IN  VAdd(exclusion, VMul(vec_from_angle(r_angle), r_distance, Trig))

\* The position drawn by create_rocks and create_wormholes: exclusion +
\* vec_from_angle(r_angle) * r_distance, r_distance = rand * (max - min) + min
SpawnPos(exclusion, min_radius, max_radius, stream, n) ==
  LET r_angle    == RandAngle(Rand(stream, n))
      r_distance == RoundDiv(Rand(stream, n + 1) * (max_radius - min_radius) * PosPerPx,
                             RandRes) + min_radius * PosPerPx
  IN  VAdd(exclusion, VMul(vec_from_angle(r_angle), r_distance, Trig))

\* create_rocks(num, exclusion, min_radius, max_radius); base is the number
\* of rand calls made before it in the same run.  assert!(max > min) holds at
\* every call site (100.0, 250.0).
create_rocks(num, exclusion, min_radius, max_radius, stream, base) ==
  [i \in 1..num |->
     [create_rock EXCEPT
        !.pos = SpawnPos(exclusion, min_radius, max_radius, stream, base + 4 * (i - 1)),
        !.velocity = random_vec(MAX_ROCK_VEL, stream, base + 4 * (i - 1) + 2)]]

create_wormholes(num, exclusion, min_radius, max_radius, stream, base) ==
  [i \in 1..num |->
     [create_wormhole EXCEPT
        !.pos = SpawnPos(exclusion, min_radius, max_radius, stream, base + 4 * (i - 1)),
        !.velocity = random_vec(MAX_WORMHOLE_VEL, stream, base + 4 * (i - 1) + 2)]]

\* InputState::default()
InputDefault == [xaxis |-> 0, yaxis |-> 0, fire |-> FALSE, radar |-> FALSE]

player_thrust(actor) ==
  LET direction_vector == vec_from_angle(actor.facing)
  IN  [actor EXCEPT !.velocity =
         VAdd(@, VMul(direction_vector, PLAYER_THRUST * VelPerPx, Trig * DESIRED_FPS))]

player_handle_input(actor, inp) ==
  LET turned == [actor EXCEPT !.facing =
                   @ + inp.xaxis * ((PLAYER_TURN_RATE * FacingPerRad) \div DESIRED_FPS)]
  IN  IF inp.yaxis > 0 THEN player_thrust(turned) ELSE turned
\* Faulty variant of ClampVelocity: each component is limited on its own
ClampVelocity_PerAxis(v) ==
  LET max == MAX_PHYSICS_VEL * VelPerPx
      Lim(c) == IF c > max THEN max ELSE IF c < -max THEN -max ELSE c
  IN  Vec(Lim(v.x), Lim(v.y))

\* The velocity clamp of update_actor_position: v / |v| * MAX_PHYSICS_VEL
ClampVelocity(v) ==
  LET max     == MAX_PHYSICS_VEL * VelPerPx
      norm_sq == len2(v)
  IN  IF norm_sq > max * max
      THEN LET norm10 == ISqrt(100 * norm_sq)
           IN  Vec(RoundDiv(v.x * 10 * max, norm10), RoundDiv(v.y * 10 * max, norm10))
      ELSE v

update_actor_position(actor) ==
  LET v == ClampVelocity(actor.velocity)
  IN  [actor EXCEPT !.velocity = v, !.pos = VAdd(@, v), !.facing = @ + actor.ang_vel]

\* Faulty variant of WrapCoord: a coordinate on the edge of the field is moved too
WrapCoord_Inclusive(c, size) ==
  LET bounds == size \div 2
  IN  IF c >= bounds THEN c - size
      ELSE IF c <= -bounds THEN c + size
      ELSE c

WrapCoord(c, size) ==
  LET bounds == size \div 2
  IN  IF c > bounds THEN c - size ELSE IF c < -bounds THEN c + size ELSE c

\* Faulty variant of wrap_actor_position: only x is wrapped
wrap_actor_position_XOnly(actor, sx, sy) ==
  [actor EXCEPT !.pos = Vec(WrapCoord(@.x, sx * PosPerPx), @.y)]

wrap_actor_position(actor, sx, sy) ==
  [actor EXCEPT !.pos = Vec(WrapCoord(@.x, sx * PosPerPx), WrapCoord(@.y, sy * PosPerPx))]

\* Faulty variant of handle_timed_life: dt is one f32 step too large
handle_timed_life_DtStepUp(actor) == [actor EXCEPT !.life = F32Sub(@, seconds + 1)]

handle_timed_life(actor) == [actor EXCEPT !.life = F32Sub(@, seconds)]

----------------------------------------------------------------------------
(* MainState.  A value s below is a MainState: the record of its fields. *)

\* Bounds of the model
\* update frames of one run of Spec
MaxFrames == 2
\* key events of one run of Spec
MaxKeys == 1
\* the player's facing stays within +- FacingMax angle units
FacingMax == 66
\* no radar pulse is fired once radar_layer has passed LayerMax
LayerMax == 16
\* a cooldown timer stops falling once it is below -TimerFloor frames
TimerFloor == 2
\* the frames-since-last-spawn counters stop counting at GapMax
GapMax == 32

\* MainState::new and MainState::reset build the same fields
NewState(stream) ==
  LET p == create_player
  IN  [player               |-> p,
       shots                |-> << >>,
       radar                |-> << >>,
       rocks                |-> create_rocks(5, p.pos, 100, 250, stream, 0),
       wormhole             |-> create_wormholes(1, p.pos, 100, 250, stream, 20),
       level                |-> 0,
       score                |-> 0,
       input                |-> InputDefault,
       player_shot_timeout  |-> 0,
       player_radar_timeout |-> 0,
       radar_layer          |-> 0]

\* Faulty variant of reset: the score is carried into the new game
reset_KeepsScore(s, stream) == [NewState(stream) EXCEPT !.score = s.score]

\* Faulty variant of reset: the level is carried into the new game
reset_KeepsLevel(s, stream) == [NewState(stream) EXCEPT !.level = s.level]

reset(s, stream) == NewState(stream)

\* Faulty variant of fire_player_shot: the cooldown is not restarted
fire_player_shot_NoCooldown(s) ==
  LET direction == vec_from_angle(s.player.facing)
      shot == [create_shot EXCEPT
                 !.pos = s.player.pos,
                 !.facing = s.player.facing,
                 !.velocity = VMul(direction, SHOT_SPEED * VelPerPx, Trig)]
  IN  [s EXCEPT !.shots = Append(@, shot)]

fire_player_shot(s) ==
  LET direction == vec_from_angle(s.player.facing)
      shot == [create_shot EXCEPT
                 !.pos = s.player.pos,
                 !.facing = s.player.facing,
                 !.velocity = VMul(direction, SHOT_SPEED * VelPerPx, Trig)]
  IN  [s EXCEPT !.player_shot_timeout = PLAYER_SHOT_TIME, !.shots = Append(@, shot)]

\* Faulty variant of fire_player_radar: radar_layer is not advanced
fire_player_radar_NoStep(s) ==
  LET pulse == [create_radar(s.radar_layer) EXCEPT !.pos = s.player.pos]
  IN  [s EXCEPT !.player_radar_timeout = PLAYER_RADAR_TIME,
                !.radar = Append(@, pulse)]

fire_player_radar(s) ==
  LET pulse == [create_radar(s.radar_layer) EXCEPT !.pos = s.player.pos]
  IN  [s EXCEPT !.player_radar_timeout = PLAYER_RADAR_TIME,
                !.radar_layer = @ + 2,
                !.radar = Append(@, pulse)]

Alive(a) == a.life > 0

\* Faulty variant of clear_dead_stuff: retain(life >= 0.0)
clear_dead_stuff_KeepsZero(s) ==
  LET NotBelowZero(a) == a.life >= 0
      kept == [s EXCEPT !.shots = SelectSeq(@, NotBelowZero),
                        !.rocks = SelectSeq(@, NotBelowZero),
                        !.radar = SelectSeq(@, NotBelowZero),
                        !.wormhole = SelectSeq(@, NotBelowZero)]
  IN  IF Len(kept.radar) = 0 THEN [kept EXCEPT !.radar_layer = 0] ELSE kept

\* Faulty variant of clear_dead_stuff: radar.len() is tested before the
\* retain calls
clear_dead_stuff_ResetFirst(s) ==
  LET early == IF Len(s.radar) = 0 THEN [s EXCEPT !.radar_layer = 0] ELSE s
  IN  [early EXCEPT !.shots = SelectSeq(@, Alive),
                    !.rocks = SelectSeq(@, Alive),
                    !.radar = SelectSeq(@, Alive),
                    !.wormhole = SelectSeq(@, Alive)]

clear_dead_stuff(s) ==
  LET kept == [s EXCEPT !.shots = SelectSeq(@, Alive),
                        !.rocks = SelectSeq(@, Alive),
                        !.radar = SelectSeq(@, Alive),
                        !.wormhole = SelectSeq(@, Alive)]
  IN  IF Len(kept.radar) = 0 THEN [kept EXCEPT !.radar_layer = 0] ELSE kept

\* Faulty variant of Collide: distance.len() <= a.bbox_size + b.bbox_size
Collide_Inclusive(a, b) ==
  LET v == VSub(a.pos, b.pos)
      r == (a.bbox_size + b.bbox_size) * PosPerPx
  IN  Abs(v.x) <= r /\ Abs(v.y) <= r /\ len2(v) <= r * r

\* distance.len() < a.bbox_size + b.bbox_size
Collide(a, b) == LenLess(VSub(a.pos, b.pos), (a.bbox_size + b.bbox_size) * PosPerPx)

\* Faulty variant of handle_collisions: a rock that a shot hits does not
\* reach the player
handle_collisions_ShotShields(s) ==
  LET Hit(i, j) == Collide(s.shots[j], s.rocks[i])
      RockHitsPlayer == \E i \in 1..Len(s.rocks) :
                          /\ Collide(s.rocks[i], s.player)
                          /\ ~\E j \in 1..Len(s.shots) : Hit(i, j)
      pairs == {ij \in (1..Len(s.rocks)) \X (1..Len(s.shots)) : Hit(ij[1], ij[2])}
  IN  [s EXCEPT
         !.player.life = IF RockHitsPlayer THEN 0 ELSE @,
         !.rocks = [i \in 1..Len(s.rocks) |->
                      IF \E j \in 1..Len(s.shots) : Hit(i, j)
                      THEN [s.rocks[i] EXCEPT !.life = 0] ELSE s.rocks[i]],
         !.shots = [j \in 1..Len(s.shots) |->
                      IF \E i \in 1..Len(s.rocks) : Hit(i, j)
                      THEN [s.shots[j] EXCEPT !.life = 0] ELSE s.shots[j]],
         !.score = @ + Cardinality(pairs),
         !.wormhole = [k \in 1..Len(s.wormhole) |->
                         IF Collide(s.wormhole[k], s.player)
                         THEN [s.wormhole[k] EXCEPT !.life = 0] ELSE s.wormhole[k]]]

\* The loops of handle_collisions read positions only and write life and
\* score only, so each test's outcome is that of the pair's positions.
handle_collisions(s) ==
  LET RockHitsPlayer == \E i \in 1..Len(s.rocks) : Collide(s.rocks[i], s.player)
      Hit(i, j) == Collide(s.shots[j], s.rocks[i])
      pairs == {ij \in (1..Len(s.rocks)) \X (1..Len(s.shots)) : Hit(ij[1], ij[2])}
  IN  [s EXCEPT
         !.player.life = IF RockHitsPlayer THEN 0 ELSE @,
         !.rocks = [i \in 1..Len(s.rocks) |->
                      IF \E j \in 1..Len(s.shots) : Hit(i, j)
                      THEN [s.rocks[i] EXCEPT !.life = 0] ELSE s.rocks[i]],
         !.shots = [j \in 1..Len(s.shots) |->
                      IF \E i \in 1..Len(s.rocks) : Hit(i, j)
                      THEN [s.shots[j] EXCEPT !.life = 0] ELSE s.shots[j]],
         !.score = @ + Cardinality(pairs),
         !.wormhole = [k \in 1..Len(s.wormhole) |->
                         IF Collide(s.wormhole[k], s.player)
                         THEN [s.wormhole[k] EXCEPT !.life = 0] ELSE s.wormhole[k]]]

\* Faulty variant of check_for_level_end: the rocks are counted from the
\* level that ended
check_for_level_end_OldLevel(s, stream) ==
  IF Len(s.wormhole) = 0
  THEN [s EXCEPT
          !.score = @ + 10,
          !.level = @ + 1,
          !.wormhole = create_wormholes(1, s.player.pos, 100, 250, stream, 0),
          !.rocks = create_rocks(s.level * 2 + 5, s.player.pos, 100, 250, stream, 4)]
  ELSE s

\* Faulty variant of check_for_level_end: a dead player ends no level, as if
\* the death check came first
check_for_level_end_AliveOnly(s, stream) ==
  IF Len(s.wormhole) = 0 /\ s.player.life > 0
  THEN [s EXCEPT
          !.score = @ + 10,
          !.level = @ + 1,
          !.wormhole = create_wormholes(1, s.player.pos, 100, 250, stream, 0),
          !.rocks = create_rocks((s.level + 1) * 2 + 5, s.player.pos, 100, 250, stream, 4)]
  ELSE s

\* Faulty variant of check_for_level_end: as many wormholes as the new level
check_for_level_end_WormholePerLevel(s, stream) ==
  IF Len(s.wormhole) = 0
  THEN [s EXCEPT
          !.score = @ + 10,
          !.level = @ + 1,
          !.wormhole = create_wormholes(s.level + 1, s.player.pos, 100, 250, stream, 0),
          !.rocks = create_rocks((s.level + 1) * 2 + 5, s.player.pos, 100, 250, stream, 4)]
  ELSE s

\* Faulty variant of check_for_level_end: the new rocks are added to those
\* that are left
check_for_level_end_Extends(s, stream) ==
  IF Len(s.wormhole) = 0
  THEN [s EXCEPT
          !.score = @ + 10,
          !.level = @ + 1,
          !.wormhole = create_wormholes(1, s.player.pos, 100, 250, stream, 0),
          !.rocks = @ \o create_rocks((s.level + 1) * 2 + 5, s.player.pos, 100, 250, stream, 4)]
  ELSE s

check_for_level_end(s, stream) ==
  IF Len(s.wormhole) = 0
  THEN [s EXCEPT
          !.score = @ + 10,
          !.level = @ + 1,
          !.wormhole = create_wormholes(1, s.player.pos, 100, 250, stream, 0),
          !.rocks = create_rocks((s.level + 1) * 2 + 5, s.player.pos, 100, 250, stream, 4)]
  ELSE s

\* timeout -= seconds.  Only the sign of a timer is ever read; below the
\* floor the model stops the fall.
TickTimer(t) == IF t < -(TimerFloor * seconds) THEN t ELSE F32Sub(t, seconds)

\* update, lines 536-544: the input, the two cooldowns and the firing
UpdateInput(s) == [s EXCEPT !.player = player_handle_input(@, s.input)]

\* Faulty variant of UpdateShot: the cooldown is never decremented
UpdateShot_NoTick(s) ==
  IF s.input.fire /\ s.player_shot_timeout <= 0 THEN fire_player_shot(s) ELSE s

UpdateShot(s) ==
  LET t == [s EXCEPT !.player_shot_timeout = TickTimer(@)]
  IN  IF t.input.fire /\ t.player_shot_timeout < 0 THEN fire_player_shot(t) ELSE t

UpdateRadar(s) ==
  LET t == [s EXCEPT !.player_radar_timeout = TickTimer(@)]
  IN  IF t.input.radar /\ t.player_radar_timeout < 0 THEN fire_player_radar(t) ELSE t

\* update, lines 546-571: the physics of the player, the shots, the radar
\* pulses and the rocks; the wormhole is not touched
Physics(act) == wrap_actor_position(update_actor_position(act), screen_width, screen_height)

\* Faulty variant of UpdatePhysics: the wormhole is moved like a rock
UpdatePhysics_MovesWormhole(s) ==
  [s EXCEPT
     !.player = Physics(@),
     !.shots = [j \in 1..Len(s.shots) |-> handle_timed_life(Physics(s.shots[j]))],
     !.radar = [j \in 1..Len(s.radar) |-> handle_timed_life(s.radar[j])],
     !.rocks = [i \in 1..Len(s.rocks) |-> Physics(s.rocks[i])],
     !.wormhole = [k \in 1..Len(s.wormhole) |-> Physics(s.wormhole[k])]]

\* Faulty variant of UpdatePhysics: the rocks decay like the shots
UpdatePhysics_RocksDecay(s) ==
  [s EXCEPT
     !.player = Physics(@),
     !.shots = [j \in 1..Len(s.shots) |-> handle_timed_life(Physics(s.shots[j]))],
     !.radar = [j \in 1..Len(s.radar) |-> handle_timed_life(s.radar[j])],
     !.rocks = [i \in 1..Len(s.rocks) |-> handle_timed_life(Physics(s.rocks[i]))]]

UpdatePhysics(s) ==
  [s EXCEPT
     !.player = Physics(@),
     !.shots = [j \in 1..Len(s.shots) |-> handle_timed_life(Physics(s.shots[j]))],
     !.radar = [j \in 1..Len(s.radar) |-> handle_timed_life(s.radar[j])],
     !.rocks = [i \in 1..Len(s.rocks) |-> Physics(s.rocks[i])]]

----------------------------------------------------------------------------
(* The state *)

VARIABLES
  \* the fields of MainState
  player, shots, radar, rocks, wormhole, level, score, input,
  player_shot_timeout, player_radar_timeout, radar_layer,
  \* the keys held down on the keyboard (the source of the key events)
  keys,
  \* history: what the last step was and, for a frame of update, the
  \* MainState at its start (pre), after the physics (moved), after
  \* handle_collisions (mid) and after clear_dead_stuff (pruned), what it
  \* fired and what it printed
  fr,
  \* history: frames since the last shot and the last radar pulse were
  \* fired in the current game (-1: none yet)
  since,
  \* the number of frames and of key events so far
  frames, nkeys

vars == <<player, shots, radar, rocks, wormhole, level, score, input,
          player_shot_timeout, player_radar_timeout, radar_layer,
          keys, fr, since, frames, nkeys>>

ms ==
  [player               |-> player,
   shots                |-> shots,
   radar                |-> radar,
   rocks                |-> rocks,
   wormhole             |-> wormhole,
   level                |-> level,
   score                |-> score,
   input                |-> input,
   player_shot_timeout  |-> player_shot_timeout,
   player_radar_timeout |-> player_radar_timeout,
   radar_layer          |-> radar_layer]

Becomes(s) ==
  /\ player' = s.player
  /\ shots' = s.shots
  /\ radar' = s.radar
  /\ rocks' = s.rocks
  /\ wormhole' = s.wormhole
  /\ level' = s.level
  /\ score' = s.score
  /\ input' = s.input
  /\ player_shot_timeout' = s.player_shot_timeout
  /\ player_radar_timeout' = s.player_radar_timeout
  /\ radar_layer' = s.radar_layer

Starts(s) ==
  /\ player = s.player
  /\ shots = s.shots
  /\ radar = s.radar
  /\ rocks = s.rocks
  /\ wormhole = s.wormhole
  /\ level = s.level
  /\ score = s.score
  /\ input = s.input
  /\ player_shot_timeout = s.player_shot_timeout
  /\ player_radar_timeout = s.player_radar_timeout
  /\ radar_layer = s.radar_layer

\* The rand streams of Spec: per actor an angle, a distance, a velocity
\* angle and a velocity magnitude.
Streams ==
  { << 0,   0,  75, 149,    38,  60,  10,  90,    75,  20, 140,  30,
       112, 149,  0,   0,    20, 100, 100, 120,    60,   5,  30,  40 >>,
    << 90,  75,  15, 100,     5, 149,  70,  10,   130,   0,  55, 149,
       45,  30, 120,  60,    75,  75,   0,   0,    10,  40,  90,  20 >> }

\* The rand streams of SpecHold: every velocity magnitude is 0
StillStreams ==
  { << 0,   0,  75,   0,    38,  60,  10,   0,    75,  20, 140,   0,
       112, 149,  0,   0,    20, 100, 100,   0,    60,   5,  30,   0 >>,
    << 90,  75,  15,   0,     5, 149,  70,   0,   130,   0,  55,   0,
       45,  30, 120,   0,    75,  75,   0,   0,    10,  40,  90,   0 >> }

Min(a, b) == IF a < b THEN a ELSE b

\* since, one frame later
Since(n, fired, died) ==
  IF died THEN -1 ELSE IF fired THEN 0 ELSE IF n < 0 THEN -1 ELSE Min(n + 1, GapMax)

\* frames from the last spawn to the frame now run (-1: none)
Gap(n) == IF n < 0 THEN -1 ELSE n + 1

----------------------------------------------------------------------------
(* State::update: one frame *)

(* update is a sequence of steps, each working on the MainState the one
   before left: a after the input, b and c after the firing of a shot and of
   a pulse, d after the physics, e after handle_collisions, f after
   clear_dead_stuff, g after check_for_level_end, h after the death check. *)
Update(streams, counted) ==
  /\ counted => frames < MaxFrames
  /\ \E a \in {UpdateInput(ms)} :
     \E b \in {UpdateShot(a)} :
     \E c \in {UpdateRadar(b)} :
       /\ Abs(c.player.facing) <= FacingMax
       /\ Len(c.radar) > Len(b.radar) => c.radar_layer <= LayerMax + 2
       /\ \E d \in {UpdatePhysics(c)} :
          \E e \in {handle_collisions(d)} :
          \E f \in {clear_dead_stuff(e)} :
          \E st1 \in streams, st2 \in streams :
          \E g \in {check_for_level_end(f, st1)} :
          \E died \in {g.player.life <= 0} :
          \E h \in {IF died THEN reset(g, st2) ELSE g} :
            /\ Becomes(h)
            /\ fr' = [kind     |-> "frame",
                      pre      |-> ms,
                      moved    |-> d,
                      mid      |-> e,
                      pruned   |-> f,
                      shot     |-> Len(b.shots) > Len(a.shots),
                      pulse    |-> Len(c.radar) > Len(b.radar),
                      gapShot  |-> Gap(since.shot),
                      gapRadar |-> Gap(since.radar),
                      died     |-> died,
                      out      |-> IF died THEN <<g.score, g.level>> ELSE << >>]
            /\ since' = [shot  |-> Since(since.shot, Len(b.shots) > Len(a.shots), died),
                         radar |-> Since(since.radar, Len(c.radar) > Len(b.radar), died)]
  /\ frames' = IF counted THEN frames + 1 ELSE frames
  /\ UNCHANGED <<keys, nkeys>>

----------------------------------------------------------------------------
(* State::event: one action per arm of the match.  A key is Pressed when it
   goes down and Released when it goes up; every other event is the arm
   "_ => ()". *)

KeyEvent(counted, down) ==
  /\ counted => nkeys < MaxKeys
  /\ nkeys' = IF counted THEN nkeys + 1 ELSE nkeys
  /\ keys' = down
  /\ fr' = [kind |-> "key"]
  /\ UNCHANGED <<shots, radar, rocks, wormhole, level, score,
                 player_shot_timeout, player_radar_timeout, radar_layer,
                 since, frames>>

Key1_Pressed(counted) ==
  /\ KeyEvent(counted, keys)
  /\ player' = [player EXCEPT !.sys = "Engines"]
  /\ UNCHANGED input

Key2_Pressed(counted) ==
  /\ KeyEvent(counted, keys)
  /\ player' = [player EXCEPT !.sys = "Wepons"]
  /\ UNCHANGED input

Key3_Pressed(counted) ==
  /\ KeyEvent(counted, keys)
  /\ player' = [player EXCEPT !.sys = "Radar"]
  /\ UNCHANGED input

W_Pressed(counted) ==
  /\ "W" \notin keys
  /\ KeyEvent(counted, keys \cup {"W"})
  /\ input' = IF player.sys = "Radar" THEN [input EXCEPT !.radar = TRUE]
              ELSE IF player.sys = "Wepons" THEN [input EXCEPT !.fire = TRUE]
              ELSE [input EXCEPT !.yaxis = 1]
  /\ UNCHANGED player

A_Pressed(counted) ==
  /\ "A" \notin keys
  /\ KeyEvent(counted, keys \cup {"A"})
  /\ input' = [input EXCEPT !.xaxis = -1]
  /\ UNCHANGED player

D_Pressed(counted) ==
  /\ "D" \notin keys
  /\ KeyEvent(counted, keys \cup {"D"})
  /\ input' = [input EXCEPT !.xaxis = 1]
  /\ UNCHANGED player

\* Faulty variant of W_Released: the radar stays on
W_Released_KeepsRadar(counted) ==
  /\ "W" \in keys
  /\ KeyEvent(counted, keys \ {"W"})
  /\ input' = [input EXCEPT !.yaxis = 0, !.fire = FALSE]
  /\ UNCHANGED player

W_Released(counted) ==
  /\ "W" \in keys
  /\ KeyEvent(counted, keys \ {"W"})
  /\ input' = [input EXCEPT !.yaxis = 0, !.fire = FALSE, !.radar = FALSE]
  /\ UNCHANGED player

A_Released(counted) ==
  /\ "A" \in keys
  /\ KeyEvent(counted, keys \ {"A"})
  /\ input' = [input EXCEPT !.xaxis = 0]
  /\ UNCHANGED player

D_Released(counted) ==
  /\ "D" \in keys
  /\ KeyEvent(counted, keys \ {"D"})
  /\ input' = [input EXCEPT !.xaxis = 0]
  /\ UNCHANGED player

----------------------------------------------------------------------------
(* A new game: MainState::new *)

InitNew(streams) ==
  /\ \E stream \in streams : Starts(NewState(stream))
  /\ keys = {}
  /\ fr = [kind |-> "new"]
  /\ since = [shot |-> -1, radar |-> -1]
  /\ frames = 0
  /\ nkeys = 0

(* SpecHold: a new game in which W, once down, stays down, the player never
   selects the engines, and the rocks drawn do not move.  The frames are not
   counted: the game runs for as long as it likes. *)
InitHold == InitNew(StillStreams)

UpdateHold == Update(StillStreams, FALSE)

NextHold ==
  \/ UpdateHold
  \/ Key2_Pressed(FALSE)
  \/ Key3_Pressed(FALSE)
  \/ W_Pressed(FALSE)

SpecHold == InitHold /\ [][NextHold]_vars /\ WF_vars(UpdateHold)

----------------------------------------------------------------------------
(* Spec: a run of at most MaxFrames frames and MaxKeys key events that starts
   at a frame boundary of a game: a new game, or one of the games in
   progress below.  A game in progress is a MainState as update leaves it:
   every life is above 0, no rock is within reach of the player and the
   wormhole is not, shots are at least 30 frames apart in age and pulses 24 (a key may have
   gone down since the last frame),
   each cooldown is the one its newest shot or pulse left, the radar layers
   are those fire_player_radar gave, and the score counts the rocks that
   are gone. *)

\* one frame of handle_timed_life
Decay(life) == F32Sub(life, seconds)

RECURSIVE LifeAfter(_, _)
\* a life after n frames of handle_timed_life, by halves
LifeAfter(life, n) ==
  IF n = 0 THEN life
  ELSE IF n = 1 THEN Decay(life)
  ELSE [x \in Int |-> LifeAfter(x, n - n \div 2)][LifeAfter(life, n \div 2)]

RECURSIVE TimerAfter(_, _)
\* a cooldown after n frames, by halves
TimerAfter(t, n) ==
  IF n = 0 THEN t
  ELSE IF n = 1 THEN TickTimer(t)
  ELSE [x \in Int |-> TimerAfter(x, n - n \div 2)][TimerAfter(t, n \div 2)]

\* a cooldown whose shot or pulse is long gone
TimerIdle == TimerAfter(0, TimerFloor + 2)

RockAt(pos, velocity) == [create_rock EXCEPT !.pos = pos, !.velocity = velocity]
WormAt(pos, velocity) == [create_wormhole EXCEPT !.pos = pos, !.velocity = velocity]
\* a shot fired with the given facing, n frames of update later
ShotAt(pos, facing, n) ==
  [create_shot EXCEPT
     !.pos = pos,
     !.velocity = VMul(vec_from_angle(facing), SHOT_SPEED * VelPerPx, Trig),
     !.facing = facing + n * SHOT_ANG_VEL,
     !.life = LifeAfter(SHOT_LIFE, n)]
\* a pulse fired at pos, n frames of update later
PulseAt(pos, layer, n) ==
  [create_radar(layer) EXCEPT !.pos = pos, !.life = LifeAfter(RADAR_LIFE, n)]

\* the subsequences of a sequence
RECURSIVE SubSeqs(_)
SubSeqs(q) ==
  IF q = << >> THEN { << >> }
  ELSE LET rest == SubSeqs(Tail(q))
       IN  rest \cup { <<Head(q)>> \o r : r \in rest }

\* What W does, by the system selected when it went down
Holds ==
  { [sys |-> "Radar",   keys |-> {},    input |-> InputDefault],
    [sys |-> "Radar",   keys |-> {"W"}, input |-> [InputDefault EXCEPT !.radar = TRUE]],
    [sys |-> "Wepons",  keys |-> {"W"}, input |-> [InputDefault EXCEPT !.fire = TRUE]],
    [sys |-> "Engines", keys |-> {"W"}, input |-> [InputDefault EXCEPT !.yaxis = 1]] }

(* Game A: the player has not left the origin (level 0) and has turned to
   face down (63 units = 3.15 rad).
   Rocks that drifted in: one that reaches the player in the next frame, one
   that stops exactly 24 px short of it, one that the third shot stops
   exactly 18 px short of, and one 195 px below the player.
   Shots: the first was fired up 116 frames ago and has wrapped round the
   bottom edge, the second was fired down 53 frames ago, the third 8 frames
   ago; the first two reach the rock below in the same frame. *)
RocksA ==
  << RockAt(Vec(4420, 0), Vec(-140, 0)),
     RockAt(Vec(2652, 3536), Vec(-60, -80)),
     RockAt(Vec(3295, -5400), Vec(-100, 0)),
     RockAt(Vec(-135, -35100), ZERO) >>
ShotsA ==
  << ShotAt(Vec(0, 116 * 600 - screen_height * PosPerPx), 0, 116),
     ShotAt(Vec(-5 * 53, -600 * 53), 63, 53),
     ShotAt(Vec(-5 * 8, -600 * 8), 63, 8) >>
\* the pulses alive with the layer counter and the age of the newest
PulsesA ==
  { [radar |-> << >>, radar_layer |-> 0, newest |-> 0],
    [radar |-> << PulseAt(ZERO, 0, 180) >>, radar_layer |-> 2, newest |-> 180],
    [radar |-> << PulseAt(ZERO, 0, 180), PulseAt(ZERO, 2, 100), PulseAt(ZERO, 4, 30) >>,
     radar_layer |-> 6, newest |-> 30] }

\* the age of the newest shot of a subsequence of ShotsA (0: none)
NewestA(ss) ==
  IF ss = << >> THEN 0
  ELSE LET last == ss[Len(ss)]
       IN  CHOOSE n \in {116, 53, 8} : last.life = LifeAfter(SHOT_LIFE, n)

GamesA ==
  { [ms     |-> [player               |-> [create_player EXCEPT !.facing = 63, !.sys = h.sys],
                 shots                |-> ss,
                 radar                |-> ps.radar,
                 rocks                |-> rs,
                 wormhole             |-> << WormAt(Vec(18000, 27000), Vec(30, 40)) >>,
                 level                |-> 0,
                 score                |-> 5 - Len(rs),
                 input                |-> h.input,
                 player_shot_timeout  |->
                    IF ss = << >> THEN TimerIdle
                    ELSE TimerAfter(PLAYER_SHOT_TIME, NewestA(ss) - 1),
                 player_radar_timeout |->
                    IF ps.radar = << >> THEN TimerIdle
                    ELSE TimerAfter(PLAYER_RADAR_TIME, ps.newest - 1),
                 radar_layer          |-> ps.radar_layer],
       keys   |-> h.keys,
       since  |-> [shot  |-> IF ss = << >> THEN -1 ELSE Min(NewestA(ss) - 1, GapMax),
                   radar |-> IF ps.radar = << >> THEN -1 ELSE Min(ps.newest - 1, GapMax)]]
    : h \in Holds, rs \in SubSeqs(RocksA) \ { << >> }, ss \in SubSeqs(ShotsA),
      ps \in PulsesA }

(* Game B: the player fired one shot up from the origin, then thrust up for
   71 frames (5 * 71 velocity units, 5 * 71 * 72 / 2 position units), at
   level 0 or 1.
   The wormhole: one the player reaches in the next frame, one exactly 28 px
   from where the player is after a frame without thrust, one far off.
   Rocks: one that reaches the player in the next frame, one that the shot
   reaches in the next frame, one exactly 24 px from where the player is
   after a frame without thrust and one exactly 18 px from where the shot
   is after a frame.  A pulse fired at the origin before the thrust may
   still be alive.  A or D may be down as well. *)
PlayerB ==
  [create_player EXCEPT !.pos = Vec(0, 5 * ((71 * 72) \div 2)), !.velocity = Vec(0, 5 * 71)]
WormsB ==
  { WormAt(Vec(0, 18000), Vec(30, 40)),
    WormAt(Vec(0, PlayerB.pos.y + 355 + (PLAYER_BBOX + WORMHOLE_BBOX) * PosPerPx), Vec(0, 20)),
    WormAt(Vec(36000, PlayerB.pos.y), ZERO) }
RocksB ==
  { << RockAt(Vec(0, 17600), Vec(0, -150)) >>,
    << RockAt(Vec(0, 46800), ZERO) >>,
    << RockAt(Vec(0, 17600), Vec(0, -150)), RockAt(Vec(0, 46800), ZERO) >>,
    << RockAt(Vec((PLAYER_BBOX + ROCK_BBOX) * PosPerPx, PlayerB.pos.y + 355), ZERO),
       RockAt(Vec(0, 73 * 600 + (SHOT_BBOX + ROCK_BBOX) * PosPerPx), ZERO) >> }
ShotsB == { << >>, << ShotAt(Vec(0, 72 * 600), 0, 72) >> }
HoldsB ==
  Holds \cup
  { [sys |-> "Radar", keys |-> {"A"}, input |-> [InputDefault EXCEPT !.xaxis = -1]],
    [sys |-> "Radar", keys |-> {"D"}, input |-> [InputDefault EXCEPT !.xaxis = 1]] }
PulsesB ==
  { [radar |-> << >>, radar_layer |-> 0],
    [radar |-> << PulseAt(ZERO, 0, 180) >>, radar_layer |-> 2] }
LevelsB == {0, 1}

GamesB ==
  { [ms     |-> [player               |-> [PlayerB EXCEPT !.sys = h.sys],
                 shots                |-> ss,
                 radar                |-> ps.radar,
                 rocks                |-> rs,
                 wormhole             |-> << w >>,
                 level                |-> lv,
                 score                |-> 10 * lv + (2 * lv + 5 - Len(rs)),
                 input                |-> h.input,
                 player_shot_timeout  |-> TimerIdle,
                 player_radar_timeout |-> TimerIdle,
                 radar_layer          |-> ps.radar_layer],
       keys   |-> h.keys,
       since  |-> [shot  |-> IF ss = << >> THEN -1 ELSE GapMax,
                   radar |-> IF ps.radar = << >> THEN -1 ELSE GapMax]]
    : h \in HoldsB, rs \in RocksB, ss \in ShotsB,
      ps \in PulsesB, w \in WormsB, lv \in LevelsB }

(* Game C: the player, at the origin, has turned to the right (facing 31)
   and fired a shot in the last frame; a rock comes from the right, 24 px
   from the player.  In the next frame the rock is within reach of the shot
   and of the player. *)
GamesC ==
  { [ms     |-> [player               |-> [create_player EXCEPT !.facing = 31, !.sys = h.sys],
                 shots                |-> << ShotAt(VMul(vec_from_angle(31), SHOT_SPEED * VelPerPx, Trig),
                                                    31, 1) >>,
                 radar                |-> << >>,
                 rocks                |-> << RockAt(Vec((PLAYER_BBOX + ROCK_BBOX) * PosPerPx, 0),
                                                    Vec(-149, 0)) >>,
                 wormhole             |-> << WormAt(Vec(18000, 27000), Vec(30, 40)) >>,
                 level                |-> 0,
                 score                |-> 4,
                 input                |-> h.input,
                 player_shot_timeout  |-> TimerAfter(PLAYER_SHOT_TIME, 0),
                 player_radar_timeout |-> TimerIdle,
                 radar_layer          |-> 0],
       keys   |-> h.keys,
       since  |-> [shot |-> 0, radar |-> -1]]
    : h \in Holds }

(* Game D: level 0 has just ended with the player one pixel short of the
   upper right corner of the field, flying into the corner at almost
   MAX_PHYSICS_VEL and facing it (16 units = 0.8 rad): the wormhole and the
   7 rocks of level 1 are those check_for_level_end drew around the player,
   up to 250 px away and so, some of them, outside the field. *)
PlayerD ==
  [create_player EXCEPT
     !.pos = Vec((screen_width * PosPerPx) \div 2 - PosPerPx, (screen_height * PosPerPx) \div 2 - PosPerPx),
     !.velocity = Vec(424, 424),
     !.facing = 16]

GamesD ==
  { [ms     |-> [player               |-> [PlayerD EXCEPT !.sys = h.sys],
                 shots                |-> << >>,
                 radar                |-> << >>,
                 rocks                |-> create_rocks(7, PlayerD.pos, 100, 250, stream, 4),
                 wormhole             |-> create_wormholes(1, PlayerD.pos, 100, 250, stream, 0),
                 level                |-> 1,
                 score                |-> 10,
                 input                |-> h.input,
                 player_shot_timeout  |-> TimerIdle,
                 player_radar_timeout |-> TimerIdle,
                 radar_layer          |-> 0],
       keys   |-> h.keys,
       since  |-> [shot |-> -1, radar |-> -1]]
    : h \in Holds, stream \in Streams }

\* What update leaves true of the actors at the end of every frame
AtFrameEnd(s) ==
  /\ Alive(s.player)
  /\ \A i \in 1..Len(s.rocks) : Alive(s.rocks[i]) /\ ~Collide(s.rocks[i], s.player)
  /\ \A j \in 1..Len(s.shots) : Alive(s.shots[j])
  /\ \A j \in 1..Len(s.radar) : Alive(s.radar[j])
  /\ Len(s.wormhole) = 1
  /\ Alive(s.wormhole[1]) /\ ~Collide(s.wormhole[1], s.player)

InitGame ==
  \E g \in GamesA \cup GamesB \cup GamesC \cup GamesD :
    /\ AtFrameEnd(g.ms)
    /\ Starts(g.ms)
    /\ keys = g.keys
    /\ since = g.since
    /\ fr = [kind |-> "start"]
    /\ frames = 0
    /\ nkeys = 0

Init == InitNew(Streams) \/ InitGame

Frame == Update(Streams, TRUE)

Next ==
  \/ Frame
  \/ Key1_Pressed(TRUE)
  \/ Key2_Pressed(TRUE)
  \/ Key3_Pressed(TRUE)
  \/ W_Pressed(TRUE)
  \/ A_Pressed(TRUE)
  \/ D_Pressed(TRUE)
  \/ W_Released(TRUE)
  \/ A_Released(TRUE)
  \/ D_Released(TRUE)

Spec == Init /\ [][Next]_vars

-----------------------------------------------------------------------------
(* The actor functions on their own.  update_actor_position,
   wrap_actor_position, the physics pass of update and the spawning of
   create_rocks / create_wormholes are applied to actors whose position and
   velocity are drawn from the sets below: velocities under, at and over
   MAX_PHYSICS_VEL, coordinates inside the field, on its edge, just over it
   and more than a field beyond it. *)

FnVelocities ==
  { ZERO, Vec(0, 600), Vec(360, 480), Vec(-599, -30), Vec(0, 605), Vec(363, 484),
    Vec(601, 1), Vec(15, 603), Vec(-424, 425), Vec(900, -1200) }

FnXs == { 0, 72000, 72001, -72000, -72001, 71500, 216005, -216005 }
FnYs == { 0, 54000, 54001, -54000, -54001, -53500, 162005 }

\* A state holding one actor of each collection, placed from one position and
\* one velocity
FnState(p, v) ==
  [player               |-> [create_player EXCEPT !.pos = p, !.velocity = v],
   shots                |-> << [create_shot EXCEPT !.pos = Vec(-p.x, p.y),
                                                   !.velocity = Vec(v.y, v.x)] >>,
   radar                |-> << [create_radar(0) EXCEPT !.pos = p] >>,
   rocks                |-> << RockAt(Vec(p.x, -p.y), Vec(-v.x, -v.y)) >>,
   wormhole             |-> << WormAt(Vec(-p.x, -p.y), ZERO) >>,
   level                |-> 0,
   score                |-> 0,
   input                |-> InputDefault,
   player_shot_timeout  |-> 0,
   player_radar_timeout |-> 0,
   radar_layer          |-> 2]

InitFn ==
  \E x \in FnXs, y \in FnYs, v \in FnVelocities :
    /\ Starts(FnState(Vec(x, y), v))
    /\ keys = {}
    /\ since = [shot |-> GapMax, radar |-> GapMax]
    /\ fr = [kind |-> "fn"]
    /\ frames = 0
    /\ nkeys = 0

FnStep(kind, s) ==
  /\ frames < MaxFrames
  /\ Becomes(s)
  /\ fr' = [kind |-> kind, pre |-> ms]
  /\ frames' = frames + 1
  /\ UNCHANGED <<keys, since, nkeys>>

\* update_actor_position on the player, every shot and every rock
StepPosition ==
  FnStep("position",
         [ms EXCEPT
            !.player = update_actor_position(@),
            !.shots = [j \in 1..Len(shots) |-> update_actor_position(shots[j])],
            !.rocks = [i \in 1..Len(rocks) |-> update_actor_position(rocks[i])]])

\* wrap_actor_position on the player, every shot and every rock
StepWrap ==
  FnStep("wrap",
         [ms EXCEPT
            !.player = wrap_actor_position(@, screen_width, screen_height),
            !.shots = [j \in 1..Len(shots) |->
                         wrap_actor_position(shots[j], screen_width, screen_height)],
            !.rocks = [i \in 1..Len(rocks) |->
                         wrap_actor_position(rocks[i], screen_width, screen_height)]])

\* the physics pass of update
StepPhysics == FnStep("physics", UpdatePhysics(ms))

\* The streams a spawning run reads: the angle and the distance of each of
\* three actors, the distances including the least and the greatest rand
SpawnAngles == { 3 * k : k \in 0..49 }
SpawnDists == { 0, 75, RandRes - 1 }
SpawnStreams ==
  { << a, d, 0, 0,  (a + 40) % RandRes, RandRes - 1 - d, 75, 75,  (a + 95) % RandRes, d, 0, 0 >> :
      a \in SpawnAngles, d \in SpawnDists }

\* create_rocks and create_wormholes around the player, as new,
\* check_for_level_end and reset call them
Spawn ==
  /\ frames = 0
  /\ \E stream \in SpawnStreams :
       Becomes([ms EXCEPT
                  !.rocks = create_rocks(2, player.pos, 100, 250, stream, 0),
                  !.wormhole = create_wormholes(1, player.pos, 100, 250, stream, 8)])
  /\ fr' = [kind |-> "spawn", pre |-> ms]
  /\ frames' = MaxFrames
  /\ UNCHANGED <<keys, since, nkeys>>

NextFn ==
  \/ StepPosition
  \/ StepWrap
  \/ StepPhysics
  \/ Spawn

SpecFn == InitFn /\ [][NextFn]_vars

-----------------------------------------------------------------------------
(* SpecKeys: the key events in any number and any order, a key going down
   only when it is up and up only when it is down, interleaved with at most
   MaxFrames frames.  The game is a new one whose rocks do not move, or
   Game C, in which the player dies in the next frame and reset puts the
   input back to its default while W may still be down. *)

InitKeys ==
  \/ InitNew(StillStreams)
  \/ \E g \in GamesC :
       /\ AtFrameEnd(g.ms)
       /\ Starts(g.ms)
       /\ keys = g.keys
       /\ since = g.since
       /\ fr = [kind |-> "start"]
       /\ frames = 0
       /\ nkeys = 0

FrameKeys == Update(StillStreams, TRUE)

NextKeys ==
  \/ FrameKeys
  \/ Key1_Pressed(FALSE)
  \/ Key2_Pressed(FALSE)
  \/ Key3_Pressed(FALSE)
  \/ W_Pressed(FALSE)
  \/ A_Pressed(FALSE)
  \/ D_Pressed(FALSE)
  \/ W_Released(FALSE)
  \/ A_Released(FALSE)
  \/ D_Released(FALSE)

SpecKeys == InitKeys /\ [][NextKeys]_vars

----------------------------------------------------------------------------
(* Claims *)

IsFrame == fr.kind = "frame"

\* 0.5 s and 0.4 s of frames of 1/60 s
ShotFrames == DESIRED_FPS \div 2
RadarFrames == (2 * DESIRED_FPS) \div 5

Idx(q) == 1..Len(q)

\* the distance of a and b is below, or is exactly, the sum of their radii
Closer(a, b) ==
  LET v == VSub(a.pos, b.pos)
      r == (a.bbox_size + b.bbox_size) * PosPerPx
  IN  Abs(v.x) < r /\ Abs(v.y) < r /\ len2(v) < r * r
Touching(a, b) ==
  LET v == VSub(a.pos, b.pos)
      r == (a.bbox_size + b.bbox_size) * PosPerPx
  IN  Abs(v.x) <= r /\ Abs(v.y) <= r /\ len2(v) = r * r

\* in MainState s: the (rock, shot) pairs in reach, the rocks and the shots
\* of such a pair, and whether a rock or the wormhole reaches the player
HitPairs(s) ==
  {ij \in Idx(s.rocks) \X Idx(s.shots) : Closer(s.shots[ij[2]], s.rocks[ij[1]])}
RocksHit(s) == {i \in Idx(s.rocks) : \E j \in Idx(s.shots) : <<i, j>> \in HitPairs(s)}
ShotsHit(s) == {j \in Idx(s.shots) : \E i \in Idx(s.rocks) : <<i, j>> \in HitPairs(s)}
RockAtPlayer(s) == \E i \in Idx(s.rocks) : Closer(s.rocks[i], s.player)
WormholeAtPlayer(s) == \E k \in Idx(s.wormhole) : Closer(s.wormhole[k], s.player)

(* C1 -- Death-reset.  In a frame in which handle_collisions leaves
   player.life at 0 or below, the state at the end of the frame is a new
   game: level 0, score 0, the player of create_player (life 1.0, at the
   origin, velocity zero), 5 rocks, 1 wormhole, no shots, no radar pulses,
   both cooldowns 0 and radar_layer 0 -- a state MainState::new builds. *)
C1_DeathReset ==
  (IsFrame /\ fr.mid.player.life <= 0) =>
     /\ level = 0 /\ score = 0
     /\ player.life = PLAYER_LIFE /\ player.pos = ZERO /\ player.velocity = ZERO
     /\ player = create_player
     /\ Len(rocks) = 5 /\ Len(wormhole) = 1
     /\ shots = << >> /\ radar = << >>
     /\ player_shot_timeout = 0 /\ player_radar_timeout = 0 /\ radar_layer = 0
     /\ input = InputDefault
     /\ \E st \in Streams : ms = NewState(st)

\* a death at level 1 with points, a shot and a pulse in play
C1_Witness ==
  /\ IsFrame /\ fr.mid.player.life <= 0
  /\ fr.pre.level > 0 /\ fr.pre.score > 0
  /\ fr.pre.shots # << >> /\ fr.pre.radar # << >>

(* C2 -- Level-end, as the code has it.  In a frame in which the wormhole
   collection is empty after pruning: if the player is alive after
   handle_collisions, then at the end of the frame level is one more than at
   its start, score is the score at its start plus 10 plus one per
   (rock, shot) pair that collided in the frame, and there are 1 wormhole
   and level * 2 + 5 rocks (level the incremented value); if the player is
   dead, the level-end values are printed and the frame ends in a new game
   (level 0, score 0, 1 wormhole, 5 rocks). *)
C2_LevelEnd ==
  (IsFrame /\ fr.pruned.wormhole = << >>) =>
     LET hits == Cardinality(HitPairs(fr.moved))
     IN  IF fr.mid.player.life > 0
         THEN /\ score = fr.pre.score + 10 + hits
              /\ level = fr.pre.level + 1
              /\ Len(wormhole) = 1
              /\ Len(rocks) = level * 2 + 5
              /\ fr.out = << >>
         ELSE /\ fr.out = <<fr.pre.score + 10 + hits, fr.pre.level + 1>>
              /\ score = 0 /\ level = 0
              /\ Len(wormhole) = 1
              /\ Len(rocks) = 5

\* a level 1 ends with the player alive and a rock shot in the same frame
C2_Witness ==
  /\ IsFrame /\ fr.pruned.wormhole = << >> /\ fr.mid.player.life > 0
  /\ fr.pre.level = 1 /\ level = 2 /\ Len(rocks) = 9
  /\ HitPairs(fr.moved) # {}

\* C2 as stated: score + 10, level + 1, 1 wormhole and level * 2 + 5 rocks
\* at the end of every frame in which the wormhole collection became empty
C2_AsStated ==
  (IsFrame /\ fr.pruned.wormhole = << >>) =>
     /\ score = fr.pre.score + 10
     /\ level = fr.pre.level + 1
     /\ Len(wormhole) = 1
     /\ Len(rocks) = level * 2 + 5

(* C3 -- Cooldown gating.  In a frame that follows an earlier shot of the
   same game by gapShot frames: a shot is spawned only if gapShot is at
   least 30 frames (0.5 s of simulated time), and if fire is held and
   gapShot is at least 30, a shot is spawned. *)
C3_CooldownGating ==
  (IsFrame /\ fr.gapShot >= 0) =>
     /\ fr.shot => fr.gapShot >= ShotFrames
     /\ (fr.pre.input.fire /\ fr.gapShot >= ShotFrames) => fr.shot

\* a second shot, spawned exactly 30 frames after the first with fire held
C3_Witness ==
  IsFrame /\ fr.shot /\ fr.gapShot = ShotFrames /\ fr.pre.input.fire /\ ~fr.died

(* C4 -- Shot-rock collision, as stated.  In every frame: each (rock, shot)
   pair in reach of each other in handle_collisions has both lives at 0 or
   below after it and neither is left by the prune of the frame, and the
   score gained in handle_collisions is the number of rocks destroyed by
   shots in the frame. *)
C4_ScoredOncePerRock ==
  IsFrame =>
     /\ \A ij \in HitPairs(fr.moved) :
          fr.mid.rocks[ij[1]].life <= 0 /\ fr.mid.shots[ij[2]].life <= 0
     /\ Len(fr.pruned.rocks) = Len(fr.moved.rocks) - Cardinality(RocksHit(fr.moved))
     /\ Len(fr.pruned.shots) <= Len(fr.moved.shots) - Cardinality(ShotsHit(fr.moved))
     /\ fr.mid.score - fr.moved.score = Cardinality(RocksHit(fr.moved))

\* C4 without the score: the destruction is mutual and pruned in the frame
C4_MutualDestruction ==
  IsFrame =>
     /\ \A ij \in HitPairs(fr.moved) :
          fr.mid.rocks[ij[1]].life <= 0 /\ fr.mid.shots[ij[2]].life <= 0
     /\ Len(fr.pruned.rocks) = Len(fr.moved.rocks) - Cardinality(RocksHit(fr.moved))
     /\ Len(fr.pruned.shots) <= Len(fr.moved.shots) - Cardinality(ShotsHit(fr.moved))
     /\ fr.mid.score - fr.moved.score = Cardinality(HitPairs(fr.moved))

\* two shots reach one rock in the same frame: one rock gone, score + 2
C4_DoubleHit ==
  /\ IsFrame
  /\ Cardinality(RocksHit(fr.moved)) = 1
  /\ Cardinality(ShotsHit(fr.moved)) = 2
  /\ fr.mid.score = fr.moved.score + 2

\* every life of MainState s is above 0
LivesAbove0(s) ==
  /\ s.player.life > 0
  /\ \A j \in Idx(s.shots) : s.shots[j].life > 0
  /\ \A i \in Idx(s.rocks) : s.rocks[i].life > 0
  /\ \A j \in Idx(s.radar) : s.radar[j].life > 0
  /\ \A k \in Idx(s.wormhole) : s.wormhole[k].life > 0

(* C5 -- Dead actors never survive a frame.  At the end of every frame of
   update the player and every shot, rock, radar pulse and wormhole has
   life > 0, and so has every actor of the state a frame starts from. *)
C5_NoDeadActors ==
  IsFrame => LivesAbove0(ms) /\ LivesAbove0(fr.pre)

\* a frame that killed the player, a rock, a shot and the wormhole, and in
\* which a pulse ran out
C5_Witness ==
  /\ IsFrame
  /\ fr.mid.player.life <= 0
  /\ \E i \in Idx(fr.mid.rocks) : fr.mid.rocks[i].life <= 0
  /\ \E j \in Idx(fr.mid.shots) : fr.mid.shots[j].life <= 0
  /\ \E j \in Idx(fr.mid.radar) : fr.mid.radar[j].life <= 0
  /\ \E k \in Idx(fr.mid.wormhole) : fr.mid.wormhole[k].life <= 0

(* C6 -- Pruning is idempotent.  For the MainState handle_collisions leaves
   in any frame, clear_dead_stuff applied twice gives what clear_dead_stuff
   applied once gives: the same collections and the same radar_layer. *)
C6_PruneIdempotent ==
  IsFrame => clear_dead_stuff(clear_dead_stuff(fr.mid)) = clear_dead_stuff(fr.mid)

\* a prune that removed a rock and the last pulse, and reset radar_layer
C6_Witness ==
  /\ IsFrame
  /\ Len(fr.pruned.rocks) < Len(fr.mid.rocks)
  /\ fr.mid.radar # << >> /\ fr.pruned.radar = << >>
  /\ fr.mid.radar_layer > 0 /\ fr.pruned.radar_layer = 0

(* C7 -- Collision strictness.  In every frame, handle_collisions sets a
   life to 0 exactly for the pairs whose distance is strictly below the sum
   of the two radii -- the player for a rock, a rock and a shot for each
   other, the wormhole for the player -- and adds one to the score per such
   (rock, shot) pair; every other life is left as it was, so a pair at
   exactly the sum of the radii changes nothing. *)
C7_CollisionStrictness ==
  IsFrame =>
     /\ fr.mid.player.life = IF RockAtPlayer(fr.moved) THEN 0 ELSE fr.moved.player.life
     /\ \A i \in Idx(fr.moved.rocks) :
          fr.mid.rocks[i].life =
            IF i \in RocksHit(fr.moved) THEN 0 ELSE fr.moved.rocks[i].life
     /\ \A j \in Idx(fr.moved.shots) :
          fr.mid.shots[j].life =
            IF j \in ShotsHit(fr.moved) THEN 0 ELSE fr.moved.shots[j].life
     /\ \A k \in Idx(fr.moved.wormhole) :
          fr.mid.wormhole[k].life =
            IF Closer(fr.moved.wormhole[k], fr.moved.player) THEN 0
            ELSE fr.moved.wormhole[k].life
     /\ fr.mid.score = fr.moved.score + Cardinality(HitPairs(fr.moved))

\* a rock and the player, a shot and a rock, the wormhole and the player,
\* each pair exactly the sum of its radii apart: nothing changed
C7_Witness ==
  /\ IsFrame
  /\ \E i \in Idx(fr.moved.rocks) : Touching(fr.moved.rocks[i], fr.moved.player)
  /\ \E i \in Idx(fr.moved.rocks), j \in Idx(fr.moved.shots) :
       Touching(fr.moved.shots[j], fr.moved.rocks[i])
  /\ \E k \in Idx(fr.moved.wormhole) : Touching(fr.moved.wormhole[k], fr.moved.player)
  /\ fr.mid = fr.moved

(* C8 -- Fire and radar are level-triggered.  In every frame with fire
   (radar) held in which no shot (pulse) was fired yet in the game or the
   last one was fired at least 30 (24) frames before, a shot (pulse) is
   spawned; and in every run in which fire stays held from some point on,
   shots are spawned infinitely often. *)
C8_LevelTriggered ==
  /\ [](IsFrame =>
          /\ (fr.pre.input.fire /\ (fr.gapShot < 0 \/ fr.gapShot >= ShotFrames))
               => fr.shot
          /\ (fr.pre.input.radar /\ (fr.gapRadar < 0 \/ fr.gapRadar >= RadarFrames))
               => fr.pulse)
  /\ (<>[]input.fire) => []<>(IsFrame /\ fr.shot)

\* the fourth shot of one press of W is spawned while the others are alive
C8_Witness ==
  IsFrame /\ fr.shot /\ "W" \in keys /\ Len(shots) >= 4

(* C9 -- Radar layering.  A pulse is created with layer = radar_layer and
   radar_layer then grows by 2.  In every state the live pulses have even
   layers below radar_layer that increase along the radar collection (the
   order of creation), and radar_layer is 0 whenever the radar collection
   is empty (after every prune that leaves it empty). *)
C9_RadarLayering ==
  /\ \A j \in Idx(radar) :
       radar[j].layer % 2 = 0 /\ radar[j].layer >= 0 /\ radar[j].layer < radar_layer
  /\ \A i \in Idx(radar), j \in Idx(radar) : i < j => radar[i].layer < radar[j].layer
  /\ radar = << >> => radar_layer = 0
  /\ (IsFrame /\ fr.pulse) =>
       /\ fr.moved.radar[Len(fr.moved.radar)].layer = fr.pre.radar_layer
       /\ fr.moved.radar_layer = fr.pre.radar_layer + 2
  /\ (IsFrame /\ fr.pruned.radar = << >>) => fr.pruned.radar_layer = 0

\* a pulse is fired onto a train of live pulses in the frame in which the
\* oldest of them runs out
C9_Witness ==
  /\ IsFrame /\ fr.pulse
  /\ Len(radar) >= 3
  /\ Len(radar) < Len(fr.mid.radar)

(* C10 -- The wormhole is static and timeless.  In every frame the physics
   and the decay leave the wormhole collection as it was, handle_collisions
   changes nothing of a wormhole but its life, and that only to 0 when the
   player is within reach; so in a frame in which the player is not within
   reach of the wormhole and does not die, the wormhole collection at the
   end of the frame is the one at its start. *)
C10_WormholeStatic ==
  IsFrame =>
     /\ fr.moved.wormhole = fr.pre.wormhole
     /\ Len(fr.mid.wormhole) = Len(fr.pre.wormhole)
     /\ \A k \in Idx(fr.pre.wormhole) :
          fr.mid.wormhole[k] =
            IF Closer(fr.pre.wormhole[k], fr.moved.player)
            THEN [fr.pre.wormhole[k] EXCEPT !.life = 0]
            ELSE fr.pre.wormhole[k]
     /\ (~fr.died /\ ~WormholeAtPlayer(fr.moved)) => wormhole = fr.pre.wormhole

\* a frame that moved the player, the rocks and a shot and left a drifting
\* wormhole where it was
C10_Witness ==
  /\ IsFrame /\ ~fr.died /\ ~WormholeAtPlayer(fr.moved)
  /\ wormhole = fr.pre.wormhole
  /\ \E k \in Idx(wormhole) : wormhole[k].velocity # ZERO
  /\ fr.moved.player.pos # fr.pre.player.pos
  /\ fr.pre.shots # << >> /\ fr.moved.shots # fr.pre.shots
  /\ fr.moved.rocks # fr.pre.rocks

-----------------------------------------------------------------------------
(* Claims on the actor functions *)

\* the actors update_actor_position is applied to: before and after
MovedPairs(before, after) ==
  { <<before.player, after.player>> }
    \cup { <<before.shots[j], after.shots[j]>> : j \in Idx(before.shots) }
    \cup { <<before.rocks[i], after.rocks[i]>> : i \in Idx(before.rocks) }

MaxVel == MAX_PHYSICS_VEL * VelPerPx
Cross(v, w) == v.x * w.y - v.y * w.x
Dot(v, w) == v.x * w.x + v.y * w.y
\* |v| is MAX_PHYSICS_VEL to within one unit of velocity
AboutMaxVel(v) == (MaxVel - 1) * (MaxVel - 1) <= len2(v) /\ len2(v) <= (MaxVel + 1) * (MaxVel + 1)
\* w points where v points, to within the rounding of w's components
SameDirection(v, w) == Dot(v, w) > 0 /\ Abs(Cross(v, w)) <= Abs(v.x) + Abs(v.y)

(* C11 -- Velocity clamp, as far as it holds.  update_actor_position leaves
   a velocity of magnitude <= 200 unchanged; one of magnitude > 200 is
   rescaled to magnitude 200 and the same direction up to the rounding of
   the division and the multiplication (not exactly); so after the physics
   pass the player, every shot and every rock has speed <= 200 up to that
   rounding. *)
C11_VelocityClamp ==
  /\ fr.kind = "position" =>
       \A pr \in MovedPairs(fr.pre, ms) :
         LET v == pr[1].velocity
             w == pr[2].velocity
         IN  /\ len2(v) <= MaxVel * MaxVel => w = v
             /\ len2(v) > MaxVel * MaxVel => AboutMaxVel(w) /\ SameDirection(v, w)
  /\ fr.kind = "physics" =>
       \A pr \in MovedPairs(fr.pre, ms) : len2(pr[2].velocity) <= (MaxVel + 1) * (MaxVel + 1)

\* a velocity over the limit was rescaled
C11_Witness ==
  /\ fr.kind = "position"
  /\ len2(fr.pre.player.velocity) > MaxVel * MaxVel
  /\ player.velocity # fr.pre.player.velocity
  /\ AboutMaxVel(player.velocity)

\* C11 as stated: the rescaled magnitude is exactly 200, the direction exactly
\* kept, and no speed after the physics pass is over 200
C11_AsStated ==
  /\ fr.kind = "position" =>
       \A pr \in MovedPairs(fr.pre, ms) :
         LET v == pr[1].velocity
             w == pr[2].velocity
         IN  /\ len2(v) <= MaxVel * MaxVel => w = v
             /\ len2(v) > MaxVel * MaxVel => len2(w) = MaxVel * MaxVel /\ Cross(v, w) = 0 /\ Dot(v, w) > 0
  /\ fr.kind = "physics" =>
       \A pr \in MovedPairs(fr.pre, ms) : len2(pr[2].velocity) <= MaxVel * MaxVel

\* One coordinate wrapped as C12 says: at most one field size is taken off or
\* put on, and nothing happens from -half to half, the ends included
WrappedOnce(c, size) ==
  IF 2 * c > size THEN c - size
  ELSE IF 2 * c < -size THEN c + size
  ELSE c

(* C12 -- Wraparound.  wrap_actor_position corrects each axis at most once
   per call: a coordinate strictly greater than half the field size has the
   field size subtracted once, one strictly less than minus half has it added
   once, one of absolute value <= half the field size (the edge included) is
   unchanged; each axis is corrected whatever the other axis is, and nothing
   else of the actor changes. *)
C12_Wraparound ==
  fr.kind = "wrap" =>
    \A pr \in MovedPairs(fr.pre, ms) :
      pr[2] = [pr[1] EXCEPT !.pos = Vec(WrappedOnce(pr[1].pos.x, screen_width * PosPerPx),
                                        WrappedOnce(pr[1].pos.y, screen_height * PosPerPx))]

\* the player was more than a field and a half to the right and exactly on the
\* upper edge: x came back by one field only and is still outside, y is as it was
C12_Witness ==
  /\ fr.kind = "wrap"
  /\ 2 * fr.pre.player.pos.x > 3 * screen_width * PosPerPx
  /\ 2 * fr.pre.player.pos.y = screen_height * PosPerPx
  /\ player.pos.x = fr.pre.player.pos.x - screen_width * PosPerPx
  /\ 2 * player.pos.x > screen_width * PosPerPx
  /\ player.pos.y = fr.pre.player.pos.y

\* The radii every call site passes (lines 331-332, 356-357, 442-445), in
\* units of position
MinRadius == 100 * PosPerPx
MaxRadius == 250 * PosPerPx
\* The rounding allowed for: a quarter of a pixel
SpawnSlack == PosPerPx \div 4
\* the rocks and wormholes of a state
Spawned(s) == { s.rocks[i] : i \in Idx(s.rocks) } \cup { s.wormhole[k] : k \in Idx(s.wormhole) }
\* squared distance of an actor from a centre
Dist2(a, centre) == len2(VSub(a.pos, centre))

(* C13 -- Spawn containment, as far as it holds.  Every rock and wormhole
   that create_rocks / create_wormholes produce lies at a distance d from
   the exclusion centre (the player's position) with 100 <= d < 250 up to the
   rounding error of the sine, the cosine and the multiplication by the
   distance (not exactly: d can come out just under 100 when rand returns
   its least value); no freshly spawned rock or wormhole is within collision
   distance of the player. *)
C13_SpawnContainment ==
  fr.kind = "spawn" =>
    \A a \in Spawned(ms) :
      /\ Dist2(a, player.pos) >= (MinRadius - SpawnSlack) * (MinRadius - SpawnSlack)
      /\ Dist2(a, player.pos) < (MaxRadius + SpawnSlack) * (MaxRadius + SpawnSlack)
      /\ ~Collide(a, player)

\* rocks were spawned at the two ends of the range: one nearer than 101 px,
\* one farther than 248 px
C13_Witness ==
  /\ fr.kind = "spawn"
  /\ \E i \in Idx(rocks) : Dist2(rocks[i], player.pos) < (MinRadius + PosPerPx) * (MinRadius + PosPerPx)
  /\ \E i \in Idx(rocks) : Dist2(rocks[i], player.pos) > (MaxRadius - 2 * PosPerPx) * (MaxRadius - 2 * PosPerPx)

\* C13 as stated: 100 <= d < 250 exactly
C13_AsStated ==
  fr.kind = "spawn" =>
    \A a \in Spawned(ms) :
      /\ Dist2(a, player.pos) >= MinRadius * MinRadius
      /\ Dist2(a, player.pos) < MaxRadius * MaxRadius
      /\ ~Collide(a, player)

-----------------------------------------------------------------------------
(* Claims on timed life *)

\* 2.0 s and 3.0 s of frames of 1/60 s
ShotLifeFrames == 2 * DESIRED_FPS
RadarLifeFrames == 3 * DESIRED_FPS
\* the life of a shot and of a pulse after n updates
ShotLives == [n \in 0..(ShotLifeFrames + 1) |-> LifeAfter(SHOT_LIFE, n)]
RadarLives == [n \in 0..(RadarLifeFrames + 1) |-> LifeAfter(RADAR_LIFE, n)]
\* the actor is among those of the sequence
Among(a, q) == \E i \in Idx(q) : q[i] = a

\* Every shot and pulse has, after the decay of this frame, the life of one
\* that has undergone n updates, 1 <= n <= last, and is kept by this frame's
\* pruning exactly if n <= kept and no rock hit it
TimedExpiry(keptShot, lastShot, keptRadar, lastRadar) ==
  IsFrame =>
    /\ \A j \in Idx(fr.moved.shots) :
         \E n \in 1..lastShot :
           /\ fr.moved.shots[j].life = ShotLives[n]
           /\ Among(fr.moved.shots[j], fr.pruned.shots) <=> (n <= keptShot /\ j \notin ShotsHit(fr.moved))
    /\ \A j \in Idx(fr.moved.radar) :
         \E n \in 1..lastRadar :
           /\ fr.moved.radar[j].life = RadarLives[n]
           /\ Among(fr.moved.radar[j], fr.pruned.radar) <=> n <= keptRadar

(* C14 -- Timed expiry, as far as it holds.  The life is decremented in f32,
   each subtraction rounded, and 120 decrements of dt from 2.0 leave a
   shot's life just above 0, as 180 from 3.0 leave a pulse's: a shot that
   hits no rock is removed in the frame of its 121st update (the spawn frame
   included) and a radar pulse in the frame of its 181st; neither is removed
   earlier without a collision nor survives later. *)
C14_TimedExpiry ==
  TimedExpiry(ShotLifeFrames, ShotLifeFrames + 1, RadarLifeFrames, RadarLifeFrames + 1)

\* a shot that hit nothing is removed by its 121st update
C14_Witness ==
  /\ IsFrame
  /\ \E j \in Idx(fr.moved.shots) :
       /\ fr.moved.shots[j].life = ShotLives[ShotLifeFrames + 1]
       /\ j \notin ShotsHit(fr.moved)
       /\ ~Among(fr.moved.shots[j], fr.pruned.shots)

\* a pulse is removed by its 181st update
C14_PulseExpires ==
  /\ IsFrame
  /\ \E j \in Idx(fr.moved.radar) :
       /\ fr.moved.radar[j].life = RadarLives[RadarLifeFrames + 1]
       /\ ~Among(fr.moved.radar[j], fr.pruned.radar)

\* C14 as stated: the 120th update removes a shot, the 180th a pulse
C14_AsStated ==
  TimedExpiry(ShotLifeFrames - 1, ShotLifeFrames, RadarLifeFrames - 1, RadarLifeFrames)

\* the lives of a sequence of actors stay as they were up to the collision
\* pass, which leaves each as it was or at 0
LivesKept(before, moved, mid) ==
  /\ Len(moved) = Len(before) /\ Len(mid) = Len(before)
  /\ \A i \in Idx(before) :
       /\ moved[i].life = before[i].life
       /\ mid[i].life = before[i].life \/ mid[i].life = 0

(* C15 -- Life decay by time applies to shots and radar pulses only.  In
   every frame the life of the player, of every rock and of every wormhole
   is unchanged by the physics pass and then either unchanged or set to 0 by
   the collision pass, never decremented by dt; a radar pulse gets no
   physics: but for its life it is after the physics and collision passes
   what it was, and a pulse spawned in the frame lies where the player was
   when it was spawned. *)
C15_DecayOnlyTimed ==
  IsFrame =>
    /\ LivesKept(<<fr.pre.player>>, <<fr.moved.player>>, <<fr.mid.player>>)
    /\ LivesKept(fr.pre.rocks, fr.moved.rocks, fr.mid.rocks)
    /\ LivesKept(fr.pre.wormhole, fr.moved.wormhole, fr.mid.wormhole)
    /\ \A j \in Idx(fr.pre.radar) :
         /\ fr.moved.radar[j] = [fr.pre.radar[j] EXCEPT !.life = Decay(@)]
         /\ fr.mid.radar[j] = fr.moved.radar[j]
    /\ fr.pulse =>
         /\ Len(fr.moved.radar) = Len(fr.pre.radar) + 1
         /\ fr.moved.radar[Len(fr.moved.radar)].pos = fr.pre.player.pos
    /\ ~fr.pulse => Len(fr.moved.radar) = Len(fr.pre.radar)
    /\ ~fr.died => \A j \in Idx(radar) : \E i \in Idx(fr.moved.radar) : radar[j] = fr.moved.radar[i]

\* the player moves away while a pulse is spawned where it was and an older
\* pulse stays where it is, and a collision takes a rock's life
C15_Witness ==
  /\ IsFrame /\ fr.pulse /\ ~fr.died
  /\ fr.pre.radar # << >>
  /\ fr.moved.player.pos # fr.pre.player.pos
  /\ radar[Len(radar)].pos = fr.pre.player.pos
  /\ \E i \in Idx(fr.mid.rocks) : fr.mid.rocks[i].life = 0 /\ fr.pre.rocks[i].life > 0

-----------------------------------------------------------------------------
(* Claims on the end of the frame *)

(* C16 -- The player dies in a frame if and only if, after that frame's
   physics pass, some rock of the rocks collection is at a distance strictly
   less than player radius + rock radius (24) from the player.  Shots, radar
   pulses and the wormhole never reduce player.life: without such a rock the
   collision pass leaves it as it was.  A rock that a shot destroys in the
   same collision pass still kills the player. *)
C16_PlayerDeath ==
  IsFrame =>
    /\ fr.died <=> RockAtPlayer(fr.moved)
    /\ fr.mid.player.life = IF RockAtPlayer(fr.moved) THEN 0 ELSE fr.pre.player.life
    /\ fr.pre.player.life > 0

\* a rock in reach of the player is hit by a shot in the same collision pass,
\* and the player dies
C16_Witness ==
  /\ IsFrame /\ fr.died
  /\ \E i \in RocksHit(fr.moved) : Closer(fr.moved.rocks[i], fr.moved.player)

\* what the level-end check adds to score and to level in this frame
LevelEndBonus == IF WormholeAtPlayer(fr.moved) THEN <<10, 1>> ELSE <<0, 0>>

(* C17 -- Order of the end-of-frame steps.  On a death frame the score and
   level reported are those obtained after that frame's collision scoring,
   pruning and level-end check: the score at the frame's start, plus 1 per
   colliding (rock, shot) pair, plus 10 if the wormhole was reached, and the
   level plus 1 if it was; the report precedes the reset, which leaves
   score 0 and level 0.  A frame without a death reports nothing. *)
C17_ReportBeforeReset ==
  IsFrame =>
    /\ fr.died =>
         /\ fr.out = << fr.pre.score + Cardinality(HitPairs(fr.moved)) + LevelEndBonus[1],
                        fr.pre.level + LevelEndBonus[2] >>
         /\ fr.mid.score = fr.pre.score + Cardinality(HitPairs(fr.moved))
         /\ fr.pruned.score = fr.mid.score /\ fr.pruned.level = fr.pre.level
         /\ score = 0 /\ level = 0
    /\ ~fr.died => fr.out = << >>

\* the player dies in the frame in which the wormhole is reached and a shot
\* hits a rock: the bonus and the hit are in the report and gone after it
C17_Witness ==
  /\ IsFrame /\ fr.died
  /\ WormholeAtPlayer(fr.moved)
  /\ HitPairs(fr.moved) # {}
  /\ fr.out[1] > fr.pre.score + 10
  /\ fr.out[2] = fr.pre.level + 1
  /\ score = 0 /\ level = 0

(* C18 -- At the end of every update frame, and in the initial state, the
   wormhole collection holds exactly one wormhole, with life > 0.  Inside a
   frame it holds one wormhole up to the pruning, and is empty after the
   pruning exactly if the wormhole was within reach of the player; the
   level-end check then fills it again. *)
C18_OneWormhole ==
  /\ Len(wormhole) = 1
  /\ wormhole[1].life > 0
  /\ IsFrame =>
       /\ Len(fr.pre.wormhole) = 1 /\ Len(fr.moved.wormhole) = 1 /\ Len(fr.mid.wormhole) = 1
       /\ fr.pruned.wormhole = << >> <=> WormholeAtPlayer(fr.moved)
       /\ fr.pruned.wormhole # << >> => fr.pruned.wormhole = fr.pre.wormhole

\* the collection was empty after the pruning of a frame the player
\* survived, and holds one new wormhole at its end
C18_Witness ==
  /\ IsFrame /\ ~fr.died
  /\ fr.pruned.wormhole = << >>
  /\ Len(wormhole) = 1 /\ wormhole[1].life > 0
  /\ wormhole # fr.pre.wormhole

(* C19 -- Rock population bound.  At the end of every frame the number of
   rocks is at most level*2+5 for the current level: a level-end replaces
   the rocks by a wave of exactly level*2+5 (those left are discarded, not
   added to), a reset by 5 at level 0, and any other frame only removes
   rocks. *)
C19_RockBound ==
  /\ Len(rocks) <= level * 2 + 5
  /\ IsFrame =>
       /\ fr.died => Len(rocks) = 5 /\ level = 0
       /\ (~fr.died /\ fr.pruned.wormhole = << >>) => Len(rocks) = level * 2 + 5
       /\ (~fr.died /\ fr.pruned.wormhole # << >>) =>
            /\ Len(rocks) <= Len(fr.pre.rocks)
            /\ \A i \in Idx(rocks) : Among(rocks[i], fr.moved.rocks)

\* a level ends with rocks left: the new wave alone is there
C19_Witness ==
  /\ IsFrame /\ ~fr.died
  /\ fr.pruned.wormhole = << >>
  /\ fr.pruned.rocks # << >>
  /\ level = fr.pre.level + 1
  /\ Len(rocks) = level * 2 + 5

(* C20 -- Score and level stay consistent.  At the end of every frame
   score >= 10*level and both are >= 0; over a frame either both score and
   level are non-decreasing, level growing by at most 1, or the frame was a
   death frame and both are 0. *)
C20_ScoreLevel ==
  /\ score >= 10 * level /\ score >= 0 /\ level >= 0
  /\ IsFrame =>
       IF fr.died THEN score = 0 /\ level = 0
       ELSE /\ score >= fr.pre.score
            /\ level \in {fr.pre.level, fr.pre.level + 1}

\* a level above 0 ends in a frame in which a shot hits a rock
C20_Witness ==
  /\ IsFrame /\ ~fr.died
  /\ fr.pre.level > 0 /\ level = fr.pre.level + 1
  /\ score > fr.pre.score + 10 /\ score >= 10 * level

\* the player dies at a level above 0 with a score above 0
C20_DeathAtLevel ==
  /\ IsFrame /\ fr.died
  /\ fr.pre.score > 0 /\ fr.pre.level > 0
  /\ score = 0 /\ level = 0

-----------------------------------------------------------------------------
(* Claims on the field and on the input *)

\* the actor lies in the field, the edges included
InField(a) ==
  /\ 2 * Abs(a.pos.x) <= screen_width * PosPerPx
  /\ 2 * Abs(a.pos.y) <= screen_height * PosPerPx
\* the player, the shots and the rocks of a state
Wrapped(s) ==
  { s.player } \cup { s.shots[j] : j \in Idx(s.shots) } \cup { s.rocks[i] : i \in Idx(s.rocks) }

(* C21 -- A single wrap per frame suffices on the 800 x 600 field.
   Immediately after the physics pass of every frame the player, every shot
   and every rock has |x| <= 400 and |y| <= 300, the rocks that the level-end
   of the frame before spawned outside the field included. *)
C21_SingleWrapSuffices ==
  IsFrame => \A a \in Wrapped(fr.moved) : InField(a)

\* rocks that were spawned outside the field are inside it after the physics
\* pass, as is the player, who left the field through the corner
C21_Witness ==
  /\ IsFrame
  /\ \E i \in Idx(fr.pre.rocks) : ~InField(fr.pre.rocks[i]) /\ InField(fr.moved.rocks[i])
  /\ fr.moved.player.pos.x < 0 /\ fr.pre.player.pos.x > 0
  /\ fr.moved.player.pos.y < 0 /\ fr.pre.player.pos.y > 0

\* which of thrust, fire and radar an input state has active
Active(in) ==
  {e \in {"thrust", "fire", "radar"} :
     \/ e = "thrust" /\ in.yaxis > 0
     \/ e = "fire" /\ in.fire
     \/ e = "radar" /\ in.radar}
\* what W activates under a subsystem
EffectOf(sys) == IF sys = "Radar" THEN "radar" ELSE IF sys = "Wepons" THEN "fire" ELSE "thrust"

\* at most one is active, and none while W is up
OneSystemNow ==
  /\ Cardinality(Active(input)) <= 1
  /\ "W" \notin keys => Active(input) = {}
\* W going down activates the effect of the subsystem selected at that
\* moment and nothing else; W going up deactivates all three; any other
\* step (a subsystem switch, A, D, a frame) leaves what is active as it is,
\* but for the frame in which the player dies, whose reset deactivates all
OneSystemStep ==
  /\ ("W" \notin keys /\ "W" \in keys') => Active(input') = {EffectOf(player.sys)}
  /\ ("W" \in keys /\ "W" \notin keys') => Active(input') = {}
  /\ (("W" \in keys) <=> ("W" \in keys')) =>
       \/ Active(input') = Active(input)
       \/ fr'.kind = "frame" /\ fr'.died /\ Active(input') = {}

(* C22 -- One system at a time.  Under any sequence of key events in which
   the presses and releases of W alternate, interleaved in any way with
   subsystem switches (keys 1, 2, 3) and update frames, at most one of
   thrust (yaxis > 0), fire and radar is active in the input state at any
   moment; the active one is the effect of the subsystem that was selected
   when W was pressed, and releasing W deactivates all three. *)
C22_OneSystemAtATime == []OneSystemNow /\ [][OneSystemStep]_vars

\* W went down under Wepons and is still down, the subsystem has since been
\* switched to Engines and a frame has run: fire alone is active
C22_Witness ==
  /\ "W" \in keys
  /\ player.sys = "Engines"
  /\ Active(input) = {"fire"}
  /\ IsFrame /\ fr.shot

\* the player dies while W is down: the reset leaves nothing active
C22_ResetWhileHeld ==
  /\ IsFrame /\ fr.died
  /\ "W" \in keys
  /\ Active(fr.pre.input) # {}
  /\ Active(input) = {}

====
